---------------------------- MODULE Spec2Model ----------------------------
(***************************************************************************)
(* Student/exam records backend (FastAPI + SQLAlchemy + aiogram bot).      *)
(* The module models the persisted tables, the reminder scan, the          *)
(* recipient resolver, the event notifiers, the batch mark update and      *)
(* import, the role gate and the list queries.                             *)
(***************************************************************************)
EXTENDS Integers, Sequences, FiniteSets, TLC

VARIABLES
    \* ---- persisted tables (app/models) ----
    curator,    \* the ids of the curator rows
    group,      \* group id   -> owning curator id
    student,    \* student id -> [group_id, telegram_id]
    telegram,   \* telegram row id -> external chat identifier
    exam,       \* exam id    -> [type, group_id, curator_id, holding_date, link]
    examSeq,    \* the next value of the exam id sequence
    marks,      \* sequence of mark rows [student_id, exam_id, mark]
    \* ---- reminder scan (app/utils/bot.py send_exam_reminders) ----
    clock,      \* the current calendar day
    scan,       \* position and locals of the running scan
    sent,       \* send attempts of the current scan, in order
    resolved,   \* the last call of the recipient resolver and what it returned
    boot,       \* the bot process: position of main(), scheduler job, time of day
    \* ---- HTTP endpoints and their background tasks ----
    resp,       \* the last HTTP response, with the request it answers
    bgQueue,    \* background tasks added by endpoints, not yet started
    notifier,   \* the running (or last) event notifier task
    \* ---- mark updates (app/services/mark.py) ----
    batch,      \* the running (or last) batch_update_marks call
    imp,        \* the running (or last) import_marks_from_table call
    markTasks,  \* the notification lists handed to asyncio.create_task
    \* ---- registration conversation (app/utils/bot.py) ----
    fsm,        \* chat -> the FSM state and the remembered data of its conversation
    answer,     \* the last update handled by the bot and what it answered
    password,   \* principal -> the stored password column
    verif,      \* the students whose verif column is true
    login,      \* principal -> the login column of its row
    calls       \* the calls of a set_*_password_and_telegram service in flight

dbVars   == <<curator, group, student, telegram, exam, examSeq, marks>>
scanVars == <<clock, scan, sent, resolved, boot>>
apiVars  == <<resp, bgQueue, notifier>>
markVars == <<batch, imp, markTasks>>
botVars  == <<fsm, answer, password, verif, login, calls>>
vars     == <<curator, group, student, telegram, exam, examSeq, marks,
              clock, scan, sent, resolved, boot, resp, bgQueue, notifier,
              batch, imp, markTasks, fsm, answer, password, verif, login,
              calls>>

-----------------------------------------------------------------------------
(* Bounds of the model *)
NStudents == 2
MaxDay    == 1

(* Encodings *)
NULL   == 0
NoMark == -1

Curators == {1, 2}
Groups   == {1, 2}
Students == 1..NStudents
ExamIds  == {1, 2}
TgRows   == {1, 2}

\* The chat identifier stored in telegram row t.
ChatOf(t) == 100 + t

-----------------------------------------------------------------------------
(* holding_date is a string column.  A string is modelled by whether       *)
(* strptime("%Y-%m-%d") parses it and by its place in the lexicographic     *)
(* order of strings relative to the ISO dates: for dates written by         *)
(* strftime that order is the calendar order.                               *)
Date(d)  == [iso |-> TRUE, ord |-> d]
\* "01.12.2026": sorts below every "20yy-mm-dd"
TextLow  == [iso |-> FALSE, ord |-> -100]
\* "tbd": sorts above every "20yy-mm-dd"
TextHigh == [iso |-> FALSE, ord |-> 100]

HoldingDates == {Date(d) : d \in (-1)..(MaxDay + 3)} \cup {TextLow, TextHigh}

\* Exam.holding_date >= today.strftime("%Y-%m-%d"), compared as strings
StrGE(a, b) == a.ord >= b.ord

\* All the orders in which a query without ORDER BY may return the rows S.
SeqsOf(S) ==
    {f \in [1..Cardinality(S) -> S] : \A x \in S : \E i \in DOMAIN f : f[i] = x}

RECURSIVE Count(_, _)
\* the number of entries of the sequence q that satisfy the membership in P
Count(q, P) ==
    IF q = <<>> THEN 0
    ELSE (IF Head(q) \in P THEN 1 ELSE 0) + Count(Tail(q), P)

-----------------------------------------------------------------------------
(* Recipient resolver: ExamService.get_telegram_ids_by_exam_id *)

\* Variant of the join that forgets the group filter.
ResolverRows_AnyGroup(exam_id) ==
    {r \in (DOMAIN telegram) \X (DOMAIN student) :
        /\ student[r[2]].telegram_id = r[1]
        /\ student[r[2]].telegram_id # NULL}

\* select(Telegram.telegram_id).join(Student, Student.telegram_id == Telegram.id)
\*   .where(Student.group_id == exam.group_id, Student.telegram_id.is_not(None))
ResolverRows(exam_id) ==
    {r \in (DOMAIN telegram) \X (DOMAIN student) :
        /\ student[r[2]].telegram_id = r[1]
        /\ student[r[2]].group_id = exam[exam_id].group_id
        /\ student[r[2]].telegram_id # NULL}

\* The possible results for an existing exam: one chat id per joined row,
\* in any row order.
get_telegram_ids_by_exam_id(exam_id) ==
    {[i \in DOMAIN p |-> telegram[p[i][1]]] : p \in SeqsOf(ResolverRows(exam_id))}

-----------------------------------------------------------------------------
(* Reminder scan: send_exam_reminders *)

\* Variant of the offset test that also fires on the day of the exam.
IsReminderDay_Wide(days_left) == days_left \in {0, 1, 3}

\* if days_left in [1, 3]
IsReminderDay(days_left) == days_left \in {1, 3}

\* outcomes of bot.send_message: delivered, TelegramBadRequest, or any other
\* exception (TelegramForbiddenError, TelegramNetworkError, ...)
Outcomes == {"ok", "bad_request", "other"}

\* no call of the recipient resolver yet; raised is the status of the
\* HTTPException the call raised, NULL when it returned
NotResolved == [exam_id |-> NULL, ids |-> <<>>, raised |-> NULL]

\* The bot process outside of main(): nothing of it runs.  pc is the position
\* of main() and on_startup(), job whether the scheduler holds the daily job,
\* due whether the job's trigger has fired and its call has not begun,
\* before9 whether the time of day is before 09:00, reminded the exams with
\* the days left for which scans that are over have made a send.
NotStarted == [pc |-> "off", job |-> FALSE, due |-> FALSE, before9 |-> FALSE,
               reminded |-> {}]

ScanIdle == [pc |-> "idle", today |-> 0, exams |-> <<>>, telegram_ids |-> <<>>,
             processed |-> {}, logged |-> 0]

\* today = datetime.now().date(); select(Exam).where(holding_date >= today).
\* The call is the one the scheduler's job was due for, if it was.
ScanStart ==
    /\ scan.pc \in {"idle", "done"}
    /\ \E order \in SeqsOf({e \in DOMAIN exam :
                               StrGE(exam[e].holding_date, Date(clock))}) :
          scan' = [ScanIdle EXCEPT !.pc = "exam", !.today = clock, !.exams = order]
    /\ sent' = <<>>
    /\ resolved' = NotResolved
    /\ boot' = [boot EXCEPT !.due = FALSE]
    /\ UNCHANGED <<dbVars, apiVars, markVars, botVars, clock>>

\* The scan is over: the async-for over get_db() ends.
ScanFinish ==
    /\ scan.pc = "exam"
    /\ scan.exams = <<>>
    /\ scan' = [scan EXCEPT !.pc = "done"]
    /\ UNCHANGED <<dbVars, apiVars, markVars, botVars, clock, sent, resolved, boot>>

\* Variant in which the ValueError of strptime leaves the loop over the exams.
DateError_Abort(next) == [next EXCEPT !.logged = @ + 1, !.exams = <<>>]

\* except ValueError inside the loop over the exams: logged, on to the next exam
DateError(next) == [next EXCEPT !.logged = @ + 1]

\* One iteration of "for exam in exams" up to the resolver call.
ScanExam ==
    /\ scan.pc = "exam"
    /\ scan.exams # <<>>
    /\ LET e == Head(scan.exams)
           h == exam[e].holding_date
           next == [scan EXCEPT !.exams = Tail(@),
                                !.processed = @ \cup {e}]
       IN  IF ~h.iso
           THEN \* strptime raises ValueError: logged, next exam
                /\ scan' = DateError(next)
                /\ UNCHANGED resolved
           ELSE IF IsReminderDay(h.ord - scan.today)
           THEN \E ids \in get_telegram_ids_by_exam_id(e) :
                   /\ resolved' = [exam_id |-> e, ids |-> ids, raised |-> NULL]
                   /\ scan' = IF ids = <<>> THEN next
                              ELSE [scan EXCEPT !.pc = "send", !.telegram_ids = ids]
           ELSE /\ scan' = next
                /\ UNCHANGED resolved
    /\ UNCHANGED <<dbVars, apiVars, markVars, botVars, clock, sent, boot>>

\* After an attempt that an inner handler absorbed: on to the next recipient,
\* or to the next exam after the last one.
ScanAdvance(s) ==
    IF Tail(s.telegram_ids) = <<>>
    THEN [s EXCEPT !.pc = "exam", !.telegram_ids = <<>>,
                   !.exams = Tail(@), !.processed = @ \cup {Head(s.exams)}]
    ELSE [s EXCEPT !.telegram_ids = Tail(@)]

\* An exception that is not TelegramBadRequest leaves the for-loop over
\* telegram_ids and is caught by "except Exception" of the exam iteration.
ScanAbandon(s) ==
    [s EXCEPT !.pc = "exam", !.telegram_ids = <<>>, !.logged = @ + 1,
              !.exams = Tail(@), !.processed = @ \cup {Head(s.exams)}]

\* One iteration of "for tg_id in telegram_ids".
ScanSend(outcome) ==
    /\ scan.pc = "send"
    /\ sent' = Append(sent, [exam_id |-> Head(scan.exams),
                             chat |-> Head(scan.telegram_ids),
                             outcome |-> outcome])
    /\ scan' = CASE outcome = "ok"          -> ScanAdvance(scan)
                 [] outcome = "bad_request" -> ScanAdvance([scan EXCEPT !.logged = @ + 1])
                 [] OTHER                   -> ScanAbandon(scan)
    /\ UNCHANGED <<dbVars, apiVars, markVars, botVars, clock, resolved, boot>>

\* Midnight passes.
Tick ==
    /\ clock < MaxDay
    /\ clock' = clock + 1
    /\ UNCHANGED <<dbVars, apiVars, markVars, botVars, scan, sent, resolved, boot>>

NoResponse ==
    [op |-> "none", role |-> "none", uid |-> NULL, arg |-> NULL, status |-> 0,
     body |-> {}]

\* await asyncio.sleep(10) after a delivered message
SendDelay == 10

\* locals of an event notifier: ids is the resolved list it iterates,
\* telegram_ids what is left of it, log the calls of bot.send_message in the
\* order they were made, each with the delay the task slept after it
NotifierIdle == [pc |-> "idle", kind |-> "none", exam_id |-> NULL,
                 telegram_ids |-> <<>>, n |-> 0, attempts |-> <<>>,
                 logged |-> 0, ids |-> <<>>, log |-> <<>>]

\* locals of batch_update_marks and the state of its session: seen maps a
\* loaded mark row to the value it was loaded with and the value it has in the
\* session, pending holds the rows of db.add() that no flush has written
BatchIdle == [pc |-> "idle", n |-> 0, updated_count |-> 0, notifications |-> <<>>,
              seen |-> <<>>, pending |-> <<>>, status |-> 0]

\* locals of import_marks_from_table and the state of its session
ImportIdle == [pc |-> "idle", n |-> 0, imported_count |-> 0, errors |-> 0,
               seen |-> <<>>, pending |-> <<>>, status |-> 0]

-----------------------------------------------------------------------------
(* The registration conversation of the bot: encodings                     *)

\* The chats that talk to the bot, and the bot's own user id (the author of
\* every message the bot sent, hence of callback.message).
BotChats == {ChatOf(t) : t \in TgRows}
BotUser  == ChatOf(NULL)

\* A principal is a row of the student or of the curator table.
Principals == ({"student"} \X Students) \cup ({"curator"} \X Curators)

\* A text is a sequence of characters.  NoText is the empty text and stands
\* for a null column as well.
NoText == <<>>

\* app.utils.security.hash_password: a salted one-way digest of the password,
\* never the password itself.
hash_password(pw) == <<"$2b$">> \o pw

\* the password an administrator gave when the row was created
AdminPassword == <<"r", "o", "o", "t">>

\* the login a principal chose when it registered through /auth/register
RegisteredLogin(p) ==
    <<IF p[1] = "curator" THEN "k" ELSE "s",
      IF p[2] = 1 THEN "a" ELSE IF p[2] = 2 THEN "b" ELSE "c">>

\* FSMContext of a chat without a conversation: no state and no data
NoData  == [role |-> "", fio |-> NoText, user_id |-> NULL]
Cleared == [state |-> "none", data |-> NoData]

NoAnswer == [chat |-> NULL, handler |-> "", reply |-> ""]

\* The bot process has started: the FSM storage is in memory, so no chat has
\* a conversation, while the messages of earlier runs, with their inline
\* buttons, are still in the chats.  curator.password is not nullable; a student who
\* holds a handle went through the registration, which set the password and verif.
NoConversation ==
    /\ fsm = [c \in BotChats |-> Cleared]
    /\ answer = NoAnswer
    /\ password = [p \in Principals |->
                     IF p[1] = "curator" THEN hash_password(AdminPassword)
                     ELSE IF p[2] \in DOMAIN student /\ student[p[2]].telegram_id # NULL
                          THEN hash_password(AdminPassword)
                          ELSE NoText]
    /\ verif = {s \in DOMAIN student : student[s].telegram_id # NULL}
    /\ login = [p \in Principals |-> RegisteredLogin(p)]
    /\ calls = <<>>

InitScan ==
    /\ curator = Curators
    /\ examSeq = 3
    /\ resp = NoResponse
    /\ bgQueue = <<>>
    /\ notifier = NotifierIdle
    /\ batch = BatchIdle
    /\ imp = ImportIdle
    /\ markTasks = <<>>
    /\ group = [g \in Groups |-> g]
    /\ student \in [Students -> [group_id : Groups, telegram_id : {NULL} \cup TgRows]]
    /\ telegram = [t \in TgRows |-> ChatOf(t)]
    /\ exam \in [ExamIds -> [type : {"exam"}, group_id : Groups, curator_id : {1},
                             holding_date : HoldingDates, link : {NULL}]]
    /\ exam[1].group_id = 1
    \* Telegram.student is a one-to-one relationship (uselist=False)
    /\ \A s1, s2 \in Students :
          (s1 # s2 /\ student[s1].telegram_id # NULL) =>
              student[s1].telegram_id # student[s2].telegram_id
    /\ marks = <<>>
    /\ clock = 0
    /\ scan = ScanIdle
    /\ sent = <<>>
    /\ resolved = NotResolved
    /\ boot = NotStarted
    /\ NoConversation

NextScan ==
    \/ ScanStart
    \/ ScanExam
    \/ \E o \in Outcomes : ScanSend(o)
    \/ ScanFinish
    \/ Tick

SpecScan == InitScan /\ [][NextScan]_vars

-----------------------------------------------------------------------------
(* Properties of the reminder scan and of the resolver *)

Chats == {telegram[t] : t \in DOMAIN telegram}

\* The students of exam e's group whose bound handle is chat c.
HandleHolders(e, c) ==
    {s \in DOMAIN student :
        /\ student[s].group_id = exam[e].group_id
        /\ student[s].telegram_id # NULL
        /\ telegram[student[s].telegram_id] = c}

\* exam date minus the scan's today, in whole days (parsable dates only)
DaysLeft(e) == exam[e].holding_date.ord - scan.today

SentFor(e, c) == Count(sent, {[exam_id |-> e, chat |-> c, outcome |-> o] : o \in Outcomes})

\* C1: when a scan is over, every exam dated exactly 1 or 3 days after the
\* scan's today has had exactly one reminder sent per student of its group
\* with a bound handle, and none to anybody else.
C1_ExactlyOneReminderPerHandle ==
    scan.pc = "done" =>
        \A e \in DOMAIN exam :
            (exam[e].holding_date.iso /\ DaysLeft(e) \in {1, 3}) =>
                \A c \in Chats : SentFor(e, c) = Cardinality(HandleHolders(e, c))

\* C2: no reminder is ever sent for an exam whose days_left is not 1 and not 3.
C2_NoReminderOutsideOffsets ==
    \A i \in DOMAIN sent :
        /\ exam[sent[i].exam_id].holding_date.iso
        /\ DaysLeft(sent[i].exam_id) \in {1, 3}

\* C2 witness: a finished scan that sent something, and went past an exam with
\* reachable students whose days_left is 0, 2 or 4 without sending for it.
C2_Witness ==
    /\ scan.pc = "done"
    /\ sent # <<>>
    /\ \E e \in scan.processed :
          /\ exam[e].holding_date.iso
          /\ DaysLeft(e) \in {0, 2, 4}
          /\ \E c \in Chats : HandleHolders(e, c) # {}
          /\ \A c \in Chats : SentFor(e, c) = 0

\* C3: the resolver returns exactly the chat identifiers of the students of
\* the exam's group that have a linked handle, one per such student: never one
\* for a student without a handle, never one for a student of another group.
C3_ResolverExact ==
    resolved.exam_id # NULL =>
        /\ \A c \in Chats :
              Count(resolved.ids, {c}) = Cardinality(HandleHolders(resolved.exam_id, c))
        /\ \A i \in DOMAIN resolved.ids : resolved.ids[i] \in Chats

\* C3 witness: the resolver answered for a group that has a student without a
\* handle and returned one id.
C3_Witness ==
    /\ resolved.exam_id # NULL
    /\ Len(resolved.ids) = 1
    /\ \E s \in DOMAIN student :
          /\ student[s].group_id = exam[resolved.exam_id].group_id
          /\ student[s].telegram_id = NULL

-----------------------------------------------------------------------------
(* Role gate: app/utils/roles.py *)

Roles == {"admin", "curator", "student"}

\* Variant of the gate that lets every authenticated caller through.
require_roles_Open(allowed_roles, role) == TRUE

\* role_checker: TRUE when the endpoint body runs, FALSE when the dependency
\* raises HTTPException(403) before it
require_roles(allowed_roles, role) == role \in allowed_roles

\* Depends(require_roles([...])) of each endpoint
AllowedRoles(op) ==
    CASE op = "delete_curator" -> {"admin"}
      [] op = "update_student" -> {"admin", "curator", "student"}
      [] OTHER                 -> {"admin", "curator"}

Answer(op, role, uid, arg, status, body) ==
    [op |-> op, role |-> role, uid |-> uid, arg |-> arg,
     status |-> status, body |-> body]

\* The dependency raised: the endpoint body never ran.
Forbidden(op, role, uid, arg) ==
    /\ resp' = Answer(op, role, uid, arg, 403, {})
    /\ UNCHANGED <<dbVars, scanVars, markVars, botVars, bgQueue, notifier>>

\* An endpoint that answers and changes nothing.
ReadOnly(op, role, uid, arg, status, body) ==
    /\ resp' = Answer(op, role, uid, arg, status, body)
    /\ UNCHANGED <<dbVars, scanVars, markVars, botVars, bgQueue, notifier>>

Item(kind, id, mark) == [kind |-> kind, id |-> id, mark |-> mark]

-----------------------------------------------------------------------------
(* List queries *)

\* GroupService.get_all_groups
get_all_groups(role, uid) ==
    {g \in DOMAIN group : role = "curator" => group[g] = uid}

\* ExamService.get_all_exams
get_all_exams(exam_type, role, uid) ==
    {e \in DOMAIN exam :
        /\ exam[e].type = exam_type
        /\ role = "curator" => exam[e].curator_id = uid}

\* Variant of the student query without the curator filter.
get_all_students_Unscoped(role, uid) == DOMAIN student

\* StudentService.get_all_students
get_all_students(role, uid) ==
    {s \in DOMAIN student : role = "curator" => group[student[s].group_id] = uid}

\* StudentService.get_students_by_group_id: the students of the group
get_students_by_group_id(group_id) ==
    {s \in DOMAIN student : student[s].group_id = group_id}

\* the grade the loop over student.marks may pick for exam_id
GradesOf(s, exam_id) ==
    LET hit == {i \in DOMAIN marks :
                   marks[i].student_id = s /\ marks[i].exam_id = exam_id}
    IN  IF hit = {} THEN {NoMark} ELSE {marks[i].mark : i \in hit}

\* ExamService.get_exam_marks: the rows of exam.marks
get_exam_marks(exam_id) ==
    {Item("mark", marks[i].student_id, marks[i].mark) :
        i \in {j \in DOMAIN marks : marks[j].exam_id = exam_id}}

\* GET /group/
GetGroups(role, uid) ==
    IF ~require_roles(AllowedRoles("get_groups"), role)
    THEN Forbidden("get_groups", role, uid, NULL)
    ELSE ReadOnly("get_groups", role, uid, NULL, 200,
                  {Item("group", g, NoMark) : g \in get_all_groups(role, uid)})

\* GET /exam/
GetExams(role, uid, exam_type) ==
    IF ~require_roles(AllowedRoles("get_exams"), role)
    THEN Forbidden("get_exams", role, uid, NULL)
    ELSE ReadOnly("get_exams", role, uid, NULL, 200,
                  {Item("exam", e, NoMark) : e \in get_all_exams(exam_type, role, uid)})

\* GET /student/
GetStudents(role, uid) ==
    IF ~require_roles(AllowedRoles("get_students"), role)
    THEN Forbidden("get_students", role, uid, NULL)
    ELSE ReadOnly("get_students", role, uid, NULL, 200,
                  {Item("student", s, NoMark) : s \in get_all_students(role, uid)})

\* GET /student/{group_id}/students: the service raises 404 for an absent
\* group and the endpoint raises 404 for an empty list; both are raised inside
\* the endpoint's try and leave it as 500.
GetStudentsById(role, uid, group_id, exam_id) ==
    IF ~require_roles(AllowedRoles("get_students_by_id"), role)
    THEN Forbidden("get_students_by_id", role, uid, group_id)
    ELSE IF group_id \notin DOMAIN group \/ get_students_by_group_id(group_id) = {}
    THEN ReadOnly("get_students_by_id", role, uid, group_id, 500, {})
    ELSE \E grade \in [get_students_by_group_id(group_id) ->
                          UNION {GradesOf(s, exam_id) : s \in DOMAIN student}] :
            /\ \A s \in DOMAIN grade : grade[s] \in GradesOf(s, exam_id)
            /\ ReadOnly("get_students_by_id", role, uid, group_id, 200,
                        {Item("student", s, grade[s]) : s \in DOMAIN grade})

\* GET /exam/{exam_id}/marks: the service's 404 leaves the endpoint as 500.
GetExamMarks(role, uid, exam_id) ==
    IF ~require_roles(AllowedRoles("get_exam_marks"), role)
    THEN Forbidden("get_exam_marks", role, uid, exam_id)
    ELSE IF exam_id \notin DOMAIN exam
    THEN ReadOnly("get_exam_marks", role, uid, exam_id, 500, {})
    ELSE ReadOnly("get_exam_marks", role, uid, exam_id, 200, get_exam_marks(exam_id))

-----------------------------------------------------------------------------
(* Mutating endpoints *)

MaxQueue  == 1
MaxExamId == 3

Without(f, ids) == [x \in (DOMAIN f) \ ids |-> f[x]]

RECURSIVE SelectRows(_, _, _)
\* the mark rows that survive the deletion of exams and students
SelectRows(rows, gone_exams, gone_students) ==
    IF rows = <<>> THEN <<>>
    ELSE LET rest == SelectRows(Tail(rows), gone_exams, gone_students)
         IN  IF Head(rows).exam_id \in gone_exams \/ Head(rows).student_id \in gone_students
             THEN rest ELSE <<Head(rows)>> \o rest

\* PATCH /exam/{exam_id}/link: ExamService.update_exam_link returns None for
\* an absent exam, the endpoint raises 404 inside its try and answers 500.
UpdateExamLink(role, uid, exam_id, link) ==
    IF ~require_roles(AllowedRoles("update_exam_link"), role)
    THEN Forbidden("update_exam_link", role, uid, exam_id)
    ELSE IF exam_id \notin DOMAIN exam
    THEN ReadOnly("update_exam_link", role, uid, exam_id, 500, {})
    ELSE /\ Len(bgQueue) < MaxQueue
         /\ exam' = [exam EXCEPT ![exam_id].link = link]
         /\ bgQueue' = Append(bgQueue, [kind |-> "link", exam_id |-> exam_id])
         /\ resp' = Answer("update_exam_link", role, uid, exam_id, 200,
                           {Item("exam", exam_id, NoMark)})
         /\ UNCHANGED <<curator, group, student, telegram, examSeq, marks,
                        scanVars, markVars, botVars, notifier>>

\* POST /exam/create: a foreign key to an absent group or curator fails the
\* commit (SQLAlchemyError), rolled back and answered 500.
CreateExam(role, uid, group_id, curator_id) ==
    IF ~require_roles(AllowedRoles("create_exam"), role)
    THEN Forbidden("create_exam", role, uid, NULL)
    ELSE IF group_id \notin DOMAIN group \/ curator_id \notin curator
    THEN ReadOnly("create_exam", role, uid, NULL, 500, {})
    ELSE /\ Len(bgQueue) < MaxQueue
         /\ examSeq <= MaxExamId
         /\ exam' = [e \in (DOMAIN exam) \cup {examSeq} |->
                        IF e = examSeq
                        THEN [type |-> "exam", group_id |-> group_id,
                              curator_id |-> curator_id,
                              holding_date |-> Date(1), link |-> NULL]
                        ELSE exam[e]]
         /\ examSeq' = examSeq + 1
         /\ bgQueue' = Append(bgQueue, [kind |-> "creation", exam_id |-> examSeq])
         /\ resp' = Answer("create_exam", role, uid, examSeq, 201,
                           {Item("exam", examSeq, NoMark)})
         /\ UNCHANGED <<curator, group, student, telegram, marks, scanVars, markVars, botVars, notifier>>

\* DELETE /exam/delete/{exam_id}: marks go with the exam (ondelete CASCADE).
DeleteExam(role, uid, exam_id) ==
    IF ~require_roles(AllowedRoles("delete_exam"), role)
    THEN Forbidden("delete_exam", role, uid, exam_id)
    ELSE IF exam_id \notin DOMAIN exam
    THEN ReadOnly("delete_exam", role, uid, exam_id, 500, {})
    ELSE /\ exam' = Without(exam, {exam_id})
         /\ marks' = SelectRows(marks, {exam_id}, {})
         /\ resp' = Answer("delete_exam", role, uid, exam_id, 204, {})
         /\ UNCHANGED <<curator, group, student, telegram, examSeq,
                        scanVars, markVars, botVars, bgQueue, notifier>>

\* DELETE /curator/delete/{curator_id}: the curator's groups and exams, the
\* students and exams of those groups and their marks go with it; every
\* exception of the endpoint is answered 400.
DeleteCurator(role, uid, curator_id) ==
    IF ~require_roles(AllowedRoles("delete_curator"), role)
    THEN Forbidden("delete_curator", role, uid, curator_id)
    ELSE IF curator_id \notin curator
    THEN ReadOnly("delete_curator", role, uid, curator_id, 400, {})
    ELSE LET gone_groups   == {g \in DOMAIN group : group[g] = curator_id}
             gone_students == {s \in DOMAIN student : student[s].group_id \in gone_groups}
             gone_exams    == {e \in DOMAIN exam :
                                  \/ exam[e].curator_id = curator_id
                                  \/ exam[e].group_id \in gone_groups}
         IN  /\ curator' = curator \ {curator_id}
             /\ group' = Without(group, gone_groups)
             /\ student' = Without(student, gone_students)
             /\ exam' = Without(exam, gone_exams)
             /\ marks' = SelectRows(marks, gone_exams, gone_students)
             /\ resp' = Answer("delete_curator", role, uid, curator_id, 204, {})
             /\ UNCHANGED <<telegram, examSeq, scanVars, markVars, botVars, bgQueue, notifier>>

\* PATCH /student/update/{student_id} with group_id set: the service's 404
\* for an absent student and the failed foreign key are answered 500.
UpdateStudent(role, uid, student_id, group_id) ==
    IF ~require_roles(AllowedRoles("update_student"), role)
    THEN Forbidden("update_student", role, uid, student_id)
    ELSE IF student_id \notin DOMAIN student \/ group_id \notin DOMAIN group
    THEN ReadOnly("update_student", role, uid, student_id, 500, {})
    ELSE /\ student' = [student EXCEPT ![student_id].group_id = group_id]
         /\ resp' = Answer("update_student", role, uid, student_id, 200,
                           {Item("student", student_id, NoMark)})
         /\ UNCHANGED <<curator, group, telegram, exam, examSeq, marks,
                        scanVars, markVars, botVars, bgQueue, notifier>>

-----------------------------------------------------------------------------
(* Event notifiers: notify_students_about_exam_link and                    *)
(* notify_students_about_exam_creation, run as background tasks.           *)

RemoveAt(q, i) == [j \in 1..(Len(q) - 1) |-> IF j < i THEN q[j] ELSE q[j + 1]]

\* The task opens a session, resolves the recipients and loads the exam.  For
\* an absent exam the resolver raises HTTPException(404), which the outer
\* "except Exception" logs.
NotifierStart(i) ==
    /\ notifier.pc \in {"idle", "done"}
    /\ i \in DOMAIN bgQueue
    /\ LET t == bgQueue[i]
           run == [NotifierIdle EXCEPT !.kind = t.kind, !.exam_id = t.exam_id]
       IN  IF t.exam_id \notin DOMAIN exam
           THEN notifier' = [run EXCEPT !.pc = "done", !.logged = 1]
           ELSE \E ids \in get_telegram_ids_by_exam_id(t.exam_id) :
                   notifier' = [run EXCEPT
                                  !.pc = IF ids = <<>> THEN "done" ELSE "send",
                                  !.telegram_ids = ids, !.n = Len(ids),
                                  !.ids = ids]
    /\ bgQueue' = RemoveAt(bgQueue, i)
    /\ UNCHANGED <<dbVars, scanVars, markVars, botVars, resp>>

\* Variant that serves the list from its other end.
Sending_Last(telegram_ids, outcome) ==
    [chat |-> telegram_ids[Len(telegram_ids)], outcome |-> outcome,
     delay |-> IF outcome = "ok" THEN SendDelay ELSE 0]

\* "await bot.send_message(tg_id, ...)" for the head of what is left of the
\* list, then "await asyncio.sleep(10)" inside the same try: the sleep is
\* reached only when the send returned.
Sending(telegram_ids, outcome) ==
    [chat |-> Head(telegram_ids), outcome |-> outcome,
     delay |-> IF outcome = "ok" THEN SendDelay ELSE 0]

\* Variant in which a failed send ends the notifier and turns the answer of
\* the request into an error.
NotifierSend_Surfacing(outcome) ==
    /\ notifier.pc = "send"
    /\ notifier' = [notifier EXCEPT !.attempts = Append(@, outcome),
                                    !.log = Append(@, Sending(notifier.telegram_ids,
                                                              outcome)),
                                    !.telegram_ids = <<>>, !.pc = "done"]
    /\ resp' = IF outcome = "ok" THEN resp ELSE [resp EXCEPT !.status = 500]
    /\ UNCHANGED <<dbVars, scanVars, markVars, botVars, bgQueue>>

\* One iteration of "for tg_id in telegram_ids": TelegramBadRequest is logged
\* inside the loop; any other exception leaves the loop and is logged by the
\* outer handler.
NotifierSend(outcome) ==
    /\ notifier.pc = "send"
    /\ LET tried == [notifier EXCEPT !.attempts = Append(@, outcome),
                                     !.log = Append(@, Sending(notifier.telegram_ids,
                                                               outcome)),
                                     !.telegram_ids = Tail(@)]
           after == [tried EXCEPT !.pc = IF tried.telegram_ids = <<>>
                                         THEN "done" ELSE "send"]
       IN  notifier' =
             CASE outcome = "ok"          -> after
               [] outcome = "bad_request" -> [after EXCEPT !.logged = @ + 1]
               [] OTHER                   -> [tried EXCEPT !.pc = "done",
                                                           !.logged = @ + 1,
                                                           !.telegram_ids = <<>>]
    /\ UNCHANGED <<dbVars, scanVars, markVars, botVars, resp, bgQueue>>

-----------------------------------------------------------------------------
(* The API with its background tasks *)

\* The callers a token can describe: get_current_user yields role and id.
Callers == {<<"admin", 1>>, <<"curator", 1>>, <<"curator", 2>>, <<"student", 1>>}

InitApi ==
    /\ curator = Curators
    /\ group = [g \in Groups |-> g]
    /\ student = [s \in Students |->
                    [group_id |-> 1,
                     telegram_id |-> IF s \in TgRows THEN s ELSE NULL]]
    /\ telegram = [t \in TgRows |-> ChatOf(t)]
    /\ exam = [e \in ExamIds |->
                 [type |-> "exam", group_id |-> e, curator_id |-> e,
                  holding_date |-> Date(1), link |-> NULL]]
    /\ examSeq = 3
    /\ marks = <<[student_id |-> 1, exam_id |-> 1, mark |-> 5]>>
    /\ clock = 0
    /\ scan = ScanIdle
    /\ sent = <<>>
    /\ resolved = NotResolved
    /\ resp = NoResponse
    /\ bgQueue = <<>>
    /\ notifier = NotifierIdle
    /\ batch = BatchIdle
    /\ imp = ImportIdle
    /\ markTasks = <<>>
    /\ boot = NotStarted
    /\ NoConversation

NextApi ==
    \/ \E c \in Callers : GetGroups(c[1], c[2])
    \/ \E c \in Callers, t \in {"exam", "credits"} : GetExams(c[1], c[2], t)
    \/ \E c \in Callers : GetStudents(c[1], c[2])
    \/ \E c \in Callers, g \in Groups, e \in ExamIds : GetStudentsById(c[1], c[2], g, e)
    \/ \E c \in Callers, e \in 1..MaxExamId : GetExamMarks(c[1], c[2], e)
    \/ \E c \in Callers, e \in 1..MaxExamId : UpdateExamLink(c[1], c[2], e, 1)
    \/ \E c \in Callers, g \in Groups : CreateExam(c[1], c[2], g, c[2])
    \/ \E c \in Callers, e \in 1..MaxExamId : DeleteExam(c[1], c[2], e)
    \/ \E c \in Callers, k \in Curators : DeleteCurator(c[1], c[2], k)
    \/ \E c \in Callers, s \in Students, g \in Groups : UpdateStudent(c[1], c[2], s, g)

SpecApi == InitApi /\ [][NextApi]_vars

\* The background tasks of the exam endpoints, driven by an administrator.
NextNotify ==
    \/ \E e \in 1..MaxExamId : UpdateExamLink("admin", 1, e, 1)
    \/ \E g \in Groups : CreateExam("admin", 1, g, 1)
    \/ \E s \in Students, g \in Groups : UpdateStudent("admin", 1, s, g)
    \/ \E i \in 1..MaxQueue : NotifierStart(i)
    \/ \E o \in Outcomes : NotifierSend(o)

SpecNotify == InitApi /\ [][NextNotify]_vars

-----------------------------------------------------------------------------
(* Properties of the event notifiers and of the API *)

Failures == {"bad_request", "other"}

\* C4: a finished notifier run over N resolved recipients has attempted all N
\* of them and logged exactly one failure per failed delivery, whatever
\* exception the delivery raised.
C4_AllRecipientsAttempted ==
    notifier.pc = "done" /\ notifier.exam_id \in DOMAIN exam =>
        /\ Len(notifier.attempts) = notifier.n
        /\ notifier.logged = Count(notifier.attempts, Failures)

ListOps == {"get_groups", "get_exams", "get_students", "get_students_by_id",
            "get_exam_marks"}

\* the record it of the last answer belongs to curator uid
OwnedBy(it, uid) ==
    CASE resp.op = "get_groups"         -> group[it.id] = uid
      [] resp.op = "get_exams"          -> exam[it.id].curator_id = uid
      [] resp.op = "get_students"       -> group[student[it.id].group_id] = uid
      [] resp.op = "get_students_by_id" -> group[resp.arg] = uid
      [] resp.op = "get_exam_marks"     -> exam[resp.arg].curator_id = uid

\* C9: the request of a caller whose role is outside the operation's
\* allow-list is answered 403 and leaves the stored data and the background
\* tasks as they were; the request of a caller whose role is in the allow-list
\* is never answered 403.
C9_RoleGate ==
    [][ /\ resp'.role \notin AllowedRoles(resp'.op) =>
              resp'.status = 403 /\ UNCHANGED <<dbVars, bgQueue>>
        /\ resp'.role \in AllowedRoles(resp'.op) => resp'.status # 403 ]_vars

\* a curator was refused an administrator's operation on an existing curator
C9_Witness ==
    /\ resp.op = "delete_curator"
    /\ resp.role = "curator"
    /\ resp.arg \in curator
    /\ resp.status = 403

\* C10: every record of a list answered to a curator belongs to that curator.
C10_CuratorScoped ==
    resp.op \in ListOps /\ resp.status = 200 /\ resp.role = "curator" =>
        \A it \in resp.body : OwnedBy(it, resp.uid)

-----------------------------------------------------------------------------
(* Mark updates: app/services/mark.py behind app/api/v1/endpoints/mark.py.  *)
(* Each call runs in its own session (autoflush=False); a call gives way to *)
(* other calls at every await, so the steps of two calls interleave.        *)

MaxItems   == 3
MaxEntries == 1
MaxRows    == 2
MaxTasks   == 1

Rejected == -2

\* the mark strings of the requests; "n/a" and "net" are written in Latin
\* letters for the Cyrillic strings of the code
RawMarks == {"n/a", "1", "5", "6", "abc"}

\* int(raw): Rejected stands for ValueError
StrToInt(raw) ==
    CASE raw = "0" -> 0 [] raw = "1" -> 1 [] raw = "2" -> 2 [] raw = "3" -> 3
      [] raw = "4" -> 4 [] raw = "5" -> 5 [] raw = "6" -> 6
      [] OTHER -> Rejected

\* batch_update_marks, mark.py:66-78 (the schema has stripped the string; the
\* inputs are lower case)
BatchMark(raw) ==
    IF raw \in {"n/a", "net", ""} THEN NoMark
    ELSE IF StrToInt(raw) = Rejected THEN Rejected
    ELSE IF StrToInt(raw) < 0 \/ StrToInt(raw) > 5 THEN Rejected
    ELSE StrToInt(raw)

\* import_marks_from_table, mark.py:233-246
ImportMark(raw) ==
    IF raw \in {"n/a", "na"} THEN NoMark
    ELSE IF StrToInt(raw) = Rejected THEN Rejected
    ELSE IF StrToInt(raw) \notin {2, 3, 4, 5} THEN Rejected
    ELSE StrToInt(raw)

\* select(Mark).where(student_id, exam_id): autoflush is off, so the query
\* sees the rows of the table and none of the session's pending ones
MatchingRows(student_id, exam_id) ==
    {i \in DOMAIN marks :
        marks[i].student_id = student_id /\ marks[i].exam_id = exam_id}

\* the value of row r as the session holds it: a row loaded before keeps the
\* state of its object in the identity map
Held(seen, r) == IF r \in DOMAIN seen THEN seen[r].cur ELSE marks[r].mark

\* Variant of the comparison that takes every item for a change.
Differs_Always(held, mark) == TRUE

\* existing_mark.mark != mark
Differs(held, mark) == held # mark

\* the session after loading row r and leaving it with value v
Load(seen, r, v) ==
    [k \in (DOMAIN seen) \cup {r} |->
        IF k = r
        THEN [orig |-> IF r \in DOMAIN seen THEN seen[r].orig ELSE marks[r].mark,
              cur |-> v]
        ELSE seen[k]]

\* commit: the flush writes the changed attributes and inserts the pending rows
Flush(seen, pending) ==
    [i \in DOMAIN marks |->
        IF i \in DOMAIN seen /\ seen[i].cur # seen[i].orig
        THEN [marks[i] EXCEPT !.mark = seen[i].cur]
        ELSE marks[i]] \o pending

\* rows in the table or waiting in a session: the bound of the model
RowsInUse == Len(marks) + Len(batch.pending) + Len(imp.pending)

MarkUnchanged == UNCHANGED <<curator, group, student, telegram, exam, examSeq,
                             scanVars, apiVars, botVars>>

\* PATCH /mark/batch is admitted and the service starts.  The model lets a
\* batch begin while fewer than MaxTasks notification tasks are outstanding.
BatchStart ==
    /\ batch.pc \in {"idle", "done", "failed"}
    /\ Len(markTasks) < MaxTasks
    /\ batch' = [BatchIdle EXCEPT !.pc = "run"]
    /\ MarkUnchanged
    /\ UNCHANGED <<marks, imp, markTasks>>

MarkExams == {1}

\* Variant whose session writes what it holds to the table when an item is
\* rejected.
BatchItem_PartialWrite(student_id, exam_id, raw_mark) ==
    /\ batch.pc = "run"
    /\ batch.n < MaxItems
    /\ LET mark    == BatchMark(raw_mark)
           item    == [student_id |-> student_id, exam_id |-> exam_id, mark |-> mark]
           next    == [batch EXCEPT !.n = @ + 1]
           counted == [next EXCEPT !.updated_count = @ + 1,
                                   !.notifications = Append(@, item)]
       IN  IF student_id = NULL \/ exam_id = NULL \/ mark = Rejected
           THEN batch' = [BatchIdle EXCEPT !.pc = "failed", !.status = 500,
                                            !.n = batch.n,
                                            !.updated_count = batch.updated_count]
           ELSE IF MatchingRows(student_id, exam_id) = {}
           THEN /\ RowsInUse < MaxRows
                /\ batch' = [counted EXCEPT !.pending = Append(@, item)]
           ELSE \E r \in MatchingRows(student_id, exam_id) :
                   batch' = IF Differs(Held(batch.seen, r), mark)
                            THEN [counted EXCEPT !.seen = Load(@, r, mark)]
                            ELSE [next EXCEPT !.seen = Load(@, r, mark)]
    /\ marks' = IF student_id = NULL \/ exam_id = NULL \/ BatchMark(raw_mark) = Rejected
                THEN Flush(batch.seen, batch.pending)
                ELSE marks
    /\ MarkUnchanged
    /\ UNCHANGED <<imp, markTasks>>

\* One pass of "for item in marks_data".  A missing id or a mark that does not
\* parse raises HTTPException(400) out of the service; the endpoint answers
\* 500 and the session closes without a commit.  Of the locals the number of
\* items passed and of changes counted before the rejection stay on record.
BatchItem(student_id, exam_id, raw_mark) ==
    /\ batch.pc = "run"
    /\ batch.n < MaxItems
    /\ LET mark    == BatchMark(raw_mark)
           item    == [student_id |-> student_id, exam_id |-> exam_id, mark |-> mark]
           next    == [batch EXCEPT !.n = @ + 1]
           counted == [next EXCEPT !.updated_count = @ + 1,
                                   !.notifications = Append(@, item)]
       IN  IF student_id = NULL \/ exam_id = NULL \/ mark = Rejected
           THEN batch' = [BatchIdle EXCEPT !.pc = "failed", !.status = 500,
                                            !.n = batch.n,
                                            !.updated_count = batch.updated_count]
           ELSE IF MatchingRows(student_id, exam_id) = {}
           THEN /\ RowsInUse < MaxRows
                /\ batch' = [counted EXCEPT !.pending = Append(@, item)]
           ELSE \E r \in MatchingRows(student_id, exam_id) :
                   batch' = IF Differs(Held(batch.seen, r), mark)
                            THEN [counted EXCEPT !.seen = Load(@, r, mark)]
                            ELSE [next EXCEPT !.seen = Load(@, r, mark)]
    /\ MarkUnchanged
    /\ UNCHANGED <<marks, imp, markTasks>>

\* db.commit(), asyncio.create_task(send_notifications_with_delay(...)) and
\* the endpoint's answer with updated_count.
BatchCommit ==
    /\ batch.pc = "run"
    /\ marks' = Flush(batch.seen, batch.pending)
    /\ markTasks' = Append(markTasks, batch.notifications)
    /\ batch' = [batch EXCEPT !.pc = "done", !.status = 200, !.notifications = <<>>,
                              !.seen = <<>>, !.pending = <<>>]
    /\ MarkUnchanged
    /\ UNCHANGED imp

\* One pass of the loop of the notification task (notify_student_mark catches
\* every exception of its own), or the end of a task that has nothing left.
send_notifications_with_delay ==
    /\ markTasks # <<>>
    /\ markTasks' = IF Head(markTasks) = <<>>
                    THEN Tail(markTasks)
                    ELSE <<Tail(Head(markTasks))>> \o Tail(markTasks)
    /\ MarkUnchanged
    /\ UNCHANGED <<marks, batch, imp>>

\* the last_fist_name of an entry: how many words it has and the student the
\* ilike query finds for the first two
Names == {[parts |-> 1, student |-> NULL]} \cup
         {[parts |-> 2, student |-> s] : s \in {NULL} \cup Students}

\* POST /mark/import is admitted and the service starts.
ImportStart ==
    /\ imp.pc \in {"idle", "done"}
    /\ imp' = [ImportIdle EXCEPT !.pc = "run"]
    /\ MarkUnchanged
    /\ UNCHANGED <<marks, batch, markTasks>>

\* One pass of "for entry in marks_data": a bad name, an unknown student or a
\* bad mark adds an error and goes on with the next entry.
ImportEntry(exam_id, name, raw_mark) ==
    /\ imp.pc = "run"
    /\ imp.n < MaxEntries
    /\ LET mark_value == ImportMark(raw_mark)
           next     == [imp EXCEPT !.n = @ + 1]
           imported == [next EXCEPT !.imported_count = @ + 1]
       IN  IF name.parts < 2 \/ name.student = NULL \/ mark_value = Rejected
           THEN imp' = [next EXCEPT !.errors = @ + 1]
           ELSE IF MatchingRows(name.student, exam_id) = {}
           THEN /\ RowsInUse < MaxRows
                /\ imp' = [imported EXCEPT !.pending =
                              Append(@, [student_id |-> name.student,
                                         exam_id |-> exam_id, mark |-> mark_value])]
           ELSE \E r \in MatchingRows(name.student, exam_id) :
                   imp' = [imported EXCEPT !.seen = Load(@, r, mark_value)]
    /\ MarkUnchanged
    /\ UNCHANGED <<marks, batch, markTasks>>

\* db.commit() and the endpoint's answer.
ImportCommit ==
    /\ imp.pc = "run"
    /\ marks' = Flush(imp.seen, imp.pending)
    /\ imp' = [imp EXCEPT !.pc = "done", !.status = 201,
                          !.seen = <<>>, !.pending = <<>>]
    /\ MarkUnchanged
    /\ UNCHANGED <<batch, markTasks>>

NextMarks ==
    \/ BatchStart
    \/ \E s \in {NULL} \cup Students, e \in MarkExams, raw \in RawMarks :
          BatchItem(s, e, raw)
    \/ BatchCommit
    \/ send_notifications_with_delay
    \/ ImportStart
    \/ \E e \in MarkExams, name \in Names, raw \in RawMarks : ImportEntry(e, name, raw)
    \/ ImportCommit

\* The stored data of InitApi before any mark was given.
InitMarks ==
    /\ curator = Curators
    /\ group = [g \in Groups |-> g]
    /\ student = [s \in Students |->
                    [group_id |-> 1,
                     telegram_id |-> IF s \in TgRows THEN s ELSE NULL]]
    /\ telegram = [t \in TgRows |-> ChatOf(t)]
    /\ exam = [e \in ExamIds |->
                 [type |-> "exam", group_id |-> e, curator_id |-> e,
                  holding_date |-> Date(1), link |-> NULL]]
    /\ examSeq = 3
    /\ marks = <<>>
    /\ clock = 0
    /\ scan = ScanIdle
    /\ sent = <<>>
    /\ resolved = NotResolved
    /\ resp = NoResponse
    /\ bgQueue = <<>>
    /\ notifier = NotifierIdle
    /\ batch = BatchIdle
    /\ imp = ImportIdle
    /\ markTasks = <<>>
    /\ boot = NotStarted
    /\ NoConversation

SpecMarks == InitMarks /\ [][NextMarks]_vars

-----------------------------------------------------------------------------
(* Properties of the mark updates *)

\* the values the running batch holds for the pair: those of the rows of the
\* table, as its session holds them, and those of the rows it has added
HeldValues(student_id, exam_id) ==
    {Held(batch.seen, r) : r \in MatchingRows(student_id, exam_id)} \cup
    {batch.pending[i].mark :
        i \in {k \in DOMAIN batch.pending :
                  /\ batch.pending[k].student_id = student_id
                  /\ batch.pending[k].exam_id = exam_id}}

Last(q) == q[Len(q)]

\* a pass of the batch loop that went on to the next item
ItemStep == batch.pc = "run" /\ batch'.pc = "run" /\ batch'.n = batch.n + 1

\* the pass left the session with a new row or with another value in a row
ItemChanged ==
    \/ batch'.pending # batch.pending
    \/ \E r \in DOMAIN batch'.seen : batch'.seen[r].cur # Held(batch.seen, r)

\* C5: an item that sets a pair to the one value the batch already holds for
\* it is not counted and not notified: every counted item names a pair that
\* does not yet hold exactly the item's value.
C5_UnchangedNotCounted ==
    [][ ItemStep /\ batch'.updated_count # batch.updated_count =>
            HeldValues(Last(batch'.notifications).student_id,
                       Last(batch'.notifications).exam_id)
                # {Last(batch'.notifications).mark} ]_vars

\* C6: every item that changes a value or creates a row adds one to
\* updated_count and appends its notification, every other item adds nothing,
\* and the commit hands exactly these notifications, updated_count of them and
\* in batch order, to the notification task.
C6_CountMatchesChanges ==
    [][ /\ ItemStep /\ ItemChanged =>
              /\ batch'.updated_count = batch.updated_count + 1
              /\ Len(batch'.notifications) = Len(batch.notifications) + 1
              /\ SubSeq(batch'.notifications, 1, Len(batch.notifications))
                    = batch.notifications
              /\ \/ /\ batch'.pending # batch.pending
                    /\ Last(batch'.pending) = Last(batch'.notifications)
                 \/ \E r \in DOMAIN batch'.seen :
                       /\ batch'.seen[r].cur # Held(batch.seen, r)
                       /\ batch'.seen[r].cur = Last(batch'.notifications).mark
                       /\ marks[r].student_id = Last(batch'.notifications).student_id
                       /\ marks[r].exam_id = Last(batch'.notifications).exam_id
        /\ ItemStep /\ ~ItemChanged =>
              /\ batch'.updated_count = batch.updated_count
              /\ batch'.notifications = batch.notifications
        /\ batch.pc = "run" /\ batch'.pc = "done" =>
              /\ batch'.updated_count = Len(batch.notifications)
              /\ markTasks' = Append(markTasks, batch.notifications) ]_vars

\* a batch of three items, one of them unchanged, answered updated_count 2
\* with two notifications handed to the task
C6_Witness ==
    /\ batch.pc = "done"
    /\ batch.n = 3
    /\ batch.updated_count = 2
    /\ markTasks # <<>>
    /\ Len(Last(markTasks)) = 2
    /\ Last(markTasks)[1].student_id # Last(markTasks)[2].student_id

\* C7: at most one mark row per (student, exam) pair.
C7_OneRowPerPair ==
    \A i, j \in DOMAIN marks :
        marks[i].student_id = marks[j].student_id /\ marks[i].exam_id = marks[j].exam_id
            => i = j

\* C8: every stored mark is null or an integer of 2..5.
C8_MarksInRange ==
    \A i \in DOMAIN marks : marks[i].mark = NoMark \/ marks[i].mark \in 2..5

-----------------------------------------------------------------------------
(* The list queries over every assignment of groups and exams to curators *)

InitLists ==
    /\ curator = Curators
    /\ group \in [Groups -> Curators]
    /\ student \in [Students -> [group_id : Groups, telegram_id : {NULL}]]
    /\ telegram = [t \in TgRows |-> ChatOf(t)]
    /\ exam \in [ExamIds -> [type : {"exam"}, group_id : Groups, curator_id : Curators,
                             holding_date : {Date(1)}, link : {NULL}]]
    /\ examSeq = 3
    /\ marks = <<>>
    /\ clock = 0
    /\ scan = ScanIdle
    /\ sent = <<>>
    /\ resolved = NotResolved
    /\ resp = NoResponse
    /\ bgQueue = <<>>
    /\ notifier = NotifierIdle
    /\ batch = BatchIdle
    /\ imp = ImportIdle
    /\ markTasks = <<>>
    /\ boot = NotStarted
    /\ NoConversation

NextLists ==
    \/ \E c \in Callers : GetGroups(c[1], c[2])
    \/ \E c \in Callers, t \in {"exam", "credits"} : GetExams(c[1], c[2], t)
    \/ \E c \in Callers : GetStudents(c[1], c[2])

SpecLists == InitLists /\ [][NextLists]_vars

\* the last answer is that of a scoped list query asked by a curator who owns
\* no group
GrouplessCuratorAsked ==
    /\ resp.op \in {"get_groups", "get_students", "get_exams"}
    /\ resp.role = "curator"
    /\ \A g \in DOMAIN group : group[g] # resp.uid

\* C11 as stated: for a curator who owns no group the list of groups, of
\* students and of exams is answered 200 with the empty list.
C11_EmptyForGrouplessCurator ==
    GrouplessCuratorAsked => resp.status = 200 /\ resp.body = {}

\* C11 as the queries are written: for a curator who owns no group the list of
\* groups and of students is answered 200 with the empty list; the list of
\* exams is answered 200 with none but the exams whose curator_id is the
\* caller, hence the empty list when the caller has no exam.
C11_EmptyForCuratorWithoutRecords ==
    GrouplessCuratorAsked =>
        /\ resp.status = 200
        /\ resp.op \in {"get_groups", "get_students"} => resp.body = {}
        /\ resp.op = "get_exams" =>
              /\ \A it \in resp.body : exam[it.id].curator_id = resp.uid
              /\ (\A e \in DOMAIN exam : exam[e].curator_id # resp.uid) => resp.body = {}

\* a curator without groups, while other curators have students, asked for the
\* students and got the empty list
C11_Witness ==
    /\ GrouplessCuratorAsked
    /\ resp.op = "get_students"
    /\ student # <<>>
    /\ resp.status = 200
    /\ resp.body = {}

-----------------------------------------------------------------------------
(* The registration conversation (app/utils/bot.py)                        *)

\* str.strip(): the text without its leading and trailing whitespace
RECURSIVE lstrip(_)
lstrip(t) == IF t # <<>> /\ Head(t) = " " THEN lstrip(Tail(t)) ELSE t

RECURSIVE rstrip(_)
rstrip(t) == IF t # <<>> /\ t[Len(t)] = " " THEN rstrip(SubSeq(t, 1, Len(t) - 1)) ELSE t

strip(t) == rstrip(lstrip(t))

\* str.split(): the maximal runs of non-whitespace characters, in order
RECURSIVE split_from(_, _, _)
split_from(t, word, words) ==
    IF t = <<>>
    THEN IF word = <<>> THEN words ELSE Append(words, word)
    ELSE IF Head(t) = " "
         THEN split_from(Tail(t), <<>>, IF word = <<>> THEN words ELSE Append(words, word))
         ELSE split_from(Tail(t), Append(word, Head(t)), words)

split(t) == split_from(t, <<>>, <<>>)

\* str.lower(), and the case folding of ILIKE
lower(t) == [i \in DOMAIN t |->
                CASE t[i] = "A" -> "a" [] t[i] = "B" -> "b" [] t[i] = "C" -> "c"
                  [] OTHER -> t[i]]

\* the number of words of a full name, and the least length of a password
FioWords    == 3
MinPassword == 4

validate_fio(fio) == Len(split(fio)) = FioWords

\* column ILIKE pattern, for patterns without the wildcards % and _
ilike(column, pattern) == lower(column) = lower(pattern)

\* The name columns of the principals.  A student and a curator may bear the
\* same name; within a table the names differ.  Students 1 and 2 have the same
\* last name and the same initials.
FullNames ==
    [p \in Principals |->
        IF p = <<"student", 1>> \/ p = <<"curator", 1>>
        THEN [last_name |-> <<"A">>, first_name |-> <<"b">>, patronymic |-> <<"c">>]
        ELSE IF p = <<"student", 2>>
        THEN [last_name |-> <<"a">>, first_name |-> <<"b", "b">>, patronymic |-> <<"c">>]
        ELSE [last_name |-> <<"c">>, first_name |-> <<"b">>, patronymic |-> <<"a">>]]

\* the texts a chat sends
Texts == { <<"a", " ", "b", " ", "c">>,
           <<"c", " ", "b", " ", "a">>,
           <<" ", "a", " ", "b", " ">> }

\* the ids of the rows of a table
RowsOf(role) == IF role = "student" THEN DOMAIN student ELSE curator

\* get_student_by_fio and get_curator_by_fio: the first row whose three name
\* columns match, NULL for the 404 they raise when there is none
get_by_fio(role, first_name, last_name, patronymic) ==
    LET table == IF role = "student" THEN "student" ELSE "curator"
        found == {id \in RowsOf(table) :
                     /\ ilike(FullNames[<<table, id>>].first_name, first_name)
                     /\ ilike(FullNames[<<table, id>>].last_name, last_name)
                     /\ ilike(FullNames[<<table, id>>].patronymic, patronymic)}
    IN  IF found = {} THEN NULL
        ELSE CHOOSE id \in found : \A other \in found : id <= other

\* the bot handled an update of the chat and answered
Answered(chat, handler, reply) ==
    answer' = [chat |-> chat, handler |-> handler, reply |-> reply]

\* send_welcome_photo(user, state): the state is cleared, then the id of the
\* author of `user` is looked up among the telegram rows
send_welcome_photo(chat, from_user, handler) ==
    /\ IF from_user \in {telegram[t] : t \in DOMAIN telegram}
       THEN /\ fsm' = [fsm EXCEPT ![chat] = Cleared]
            /\ Answered(chat, handler, "already_registered")
       ELSE /\ fsm' = [fsm EXCEPT ![chat] = [state |-> "choosing_role", data |-> NoData]]
            /\ Answered(chat, handler, "welcome")
    /\ UNCHANGED <<dbVars, scanVars, apiVars, markVars, password, verif, login, calls>>

\* /start: the author of the message is the user of the chat
start_command(chat) ==
    /\ chat \in BotChats
    /\ send_welcome_photo(chat, chat, "start_command")

\* the button "menu" of a re-prompt for the name: callback.message is a
\* message the bot sent.  Buttons of earlier messages stay in the chat, so the
\* callback may come in any state.
menu_handler(chat) ==
    /\ chat \in BotChats
    /\ send_welcome_photo(chat, BotUser, "menu_handler")

\* a button "role_student" or "role_curator"; the handler has no state filter
choose_role(chat, callback_data) ==
    LET role == IF callback_data = "role_student" THEN "student" ELSE "curator"
    IN
    /\ callback_data \in {"role_student", "role_curator"}
    /\ fsm' = [fsm EXCEPT ![chat] = [state |-> "fio",
                                     data  |-> [fsm[chat].data EXCEPT !.role = role]]]
    /\ Answered(chat, "choose_role", "enter_fio")
    /\ UNCHANGED <<dbVars, scanVars, apiVars, markVars, password, verif, login, calls>>

\* a message in the state RegistrationStates.fio
fio_handler(chat, text) ==
    LET fio_input == strip(text)
        split_fio == split(fio_input)
        data      == [fsm[chat].data EXCEPT !.fio = lower(fio_input)]
        user      == get_by_fio(data.role, split_fio[2], split_fio[1], split_fio[3])
    IN  /\ fsm[chat].state = "fio"
        /\ IF ~validate_fio(fio_input)
           THEN /\ Answered(chat, "fio_handler", "fio_invalid")
                /\ UNCHANGED fsm
           ELSE IF user = NULL
           THEN \* except Exception: the error is logged and answered
                /\ fsm' = [fsm EXCEPT ![chat].data = data]
                /\ Answered(chat, "fio_handler", "not_found")
           ELSE /\ fsm' = [fsm EXCEPT ![chat] =
                              [state |-> "pwd", data |-> [data EXCEPT !.user_id = user]]]
                /\ Answered(chat, "fio_handler", "enter_password")
        /\ UNCHANGED <<dbVars, scanVars, apiVars, markVars, password, verif, login, calls>>

\* select(Telegram).where(Telegram.telegram_id == telegram_id) ... first(),
\* NULL when there is no such row
TelegramRow(chat) ==
    LET rows == {t \in DOMAIN telegram : telegram[t] = chat}
    IN  IF rows = {} THEN NULL ELSE CHOOSE t \in rows : \A other \in rows : t <= other

\* the id the sequence gives to a new telegram row
NewTelegramRow == Cardinality(DOMAIN telegram) + 1

\* the telegram table after the chat's row is looked up and added if absent
WithTelegramRow(chat) ==
    IF TelegramRow(chat) # NULL THEN telegram
    ELSE [t \in DOMAIN telegram \cup {NewTelegramRow} |->
             IF t \in DOMAIN telegram THEN telegram[t] ELSE chat]

\* StudentService.set_student_password_and_telegram; FALSE for the 404
set_student_password_and_telegram(student_id, pw, chat) ==
    /\ student_id \in DOMAIN student
    /\ telegram' = WithTelegramRow(chat)
    /\ password' = [password EXCEPT ![<<"student", student_id>>] = hash_password(pw)]
    /\ student' = [student EXCEPT ![student_id].telegram_id =
                      CHOOSE t \in DOMAIN telegram' :
                          /\ telegram'[t] = chat
                          /\ TelegramRow(chat) # NULL => t = TelegramRow(chat)]
    /\ verif' = verif \cup {student_id}
    /\ UNCHANGED curator

\* CuratorService.set_curator_password_and_telegram; FALSE for the 404.
\* Curator has no telegram_id column: the attribute the service sets on the
\* object is not part of the row, and the commit stores the password and the
\* telegram row only.
set_curator_password_and_telegram(curator_id, pw, chat) ==
    /\ curator_id \in curator
    /\ telegram' = WithTelegramRow(chat)
    /\ password' = [password EXCEPT ![<<"curator", curator_id>>] = hash_password(pw)]
    /\ UNCHANGED <<curator, student, verif>>

\* if len(password) < 4
password_too_short_Never(pw) == FALSE

password_too_short(pw) == Len(pw) < MinPassword

\* a message in the state RegistrationStates.pwd
pwd_handler(chat, text) ==
    LET pw      == strip(text)
        role    == fsm[chat].data.role
        user_id == fsm[chat].data.user_id
    IN  /\ fsm[chat].state = "pwd"
        /\ IF password_too_short(pw)
           THEN /\ Answered(chat, "pwd_handler", "pwd_short")
                /\ UNCHANGED <<fsm, curator, student, telegram, password, verif>>
           ELSE /\ \/ /\ IF role = "student"
                         THEN set_student_password_and_telegram(user_id, pw, chat)
                         ELSE set_curator_password_and_telegram(user_id, pw, chat)
                      /\ Answered(chat, "pwd_handler", "success")
                   \/ /\ user_id \notin RowsOf(role)
                      /\ Answered(chat, "pwd_handler", "failed")
                      /\ UNCHANGED <<curator, student, telegram, password, verif>>
                \* finally: await state.clear()
                /\ fsm' = [fsm EXCEPT ![chat] = Cleared]
        /\ UNCHANGED <<group, exam, examSeq, marks, scanVars, apiVars, markVars, login,
                     calls>>

InitBot ==
    /\ curator = Curators
    /\ group = [g \in Groups |-> g]
    /\ student = [s \in Students |-> [group_id |-> 1, telegram_id |-> NULL]]
    /\ telegram = <<>>
    /\ exam = <<>>
    /\ examSeq = 1
    /\ marks = <<>>
    /\ clock = 0
    /\ scan = ScanIdle
    /\ sent = <<>>
    /\ resolved = NotResolved
    /\ resp = NoResponse
    /\ bgQueue = <<>>
    /\ notifier = NotifierIdle
    /\ batch = BatchIdle
    /\ imp = ImportIdle
    /\ markTasks = <<>>
    /\ boot = NotStarted
    /\ NoConversation

NextBot ==
    \/ \E chat \in BotChats : start_command(chat)
    \/ \E chat \in BotChats : menu_handler(chat)
    \/ \E chat \in BotChats, data \in {"role_student", "role_curator"} : choose_role(chat, data)
    \/ \E chat \in BotChats, text \in Texts : fio_handler(chat, text)
    \/ \E chat \in BotChats, text \in Texts : pwd_handler(chat, text)

SpecBot == InitBot /\ [][NextBot]_vars

-----------------------------------------------------------------------------
(* Properties of the registration conversation *)

\* the rows and columns the registration may write
Persisted == <<curator, group, student, telegram, exam, examSeq, marks, password, verif,
               login>>

\* the words of a text, and the characters of the password it carries
WordsOf(text)    == split(strip(text))
PasswordOf(text) == strip(text)

\* C12: a message that fails validation leaves the conversation of its chat
\* in the state it was in, with the same remembered data, is answered with the
\* re-prompt and writes nothing: in the state fio a text that is not exactly 3
\* words, in the state pwd a password of fewer than 4 characters.
C12_InvalidInputKeepsState ==
    [][\A chat \in BotChats, text \in Texts :
          /\ (fsm[chat].state = "fio" /\ Len(WordsOf(text)) # 3 /\ fio_handler(chat, text)) =>
                /\ fsm' = fsm
                /\ fsm'[chat].state = "fio"
                /\ answer' = [chat |-> chat, handler |-> "fio_handler", reply |-> "fio_invalid"]
                /\ UNCHANGED Persisted
          /\ (fsm[chat].state = "pwd" /\ Len(PasswordOf(text)) < 4 /\ pwd_handler(chat, text)) =>
                /\ fsm' = fsm
                /\ fsm'[chat].state = "pwd"
                /\ answer' = [chat |-> chat, handler |-> "pwd_handler", reply |-> "pwd_short"]
                /\ UNCHANGED Persisted]_vars

\* a chat that has chosen a role and found its principal was told that its
\* password is too short, and still is in the state pwd with what it remembered
C12_Witness ==
    /\ answer.handler = "pwd_handler"
    /\ answer.reply = "pwd_short"
    /\ fsm[answer.chat].state = "pwd"
    /\ fsm[answer.chat].data.user_id # NULL
    /\ fsm[answer.chat].data.fio # NoText

\* C13: when the last answer is the failure message for a 3-word name that
\* matches no principal of the chosen role, the conversation of that chat is
\* cleared: it is in no registration state, so its next message is not handled
\* as a full name.
C13_NotFoundClearsState ==
    answer.reply = "not_found" => fsm[answer.chat] = Cleared

\* the chat identifier is stored in a telegram row that a student refers to
BoundToStudent(chat) ==
    \E st \in DOMAIN student :
        /\ student[st].telegram_id \in DOMAIN telegram
        /\ telegram[student[st].telegram_id] = chat

\* C14: /start from a chat that is bound to a principal is answered "already
\* registered", does not put the conversation into choosing_role, leaves the
\* conversation of every chat as it was and writes nothing.
C14_StartWhenBoundIsNoop ==
    [][\A chat \in BotChats :
          (BoundToStudent(chat) /\ start_command(chat)) =>
              /\ answer'.reply = "already_registered"
              /\ fsm'[chat].state # "choosing_role"
              /\ fsm' = fsm
              /\ UNCHANGED Persisted]_vars

\* The bindings of chat identifiers to principals that the tables hold: a
\* student row refers to a telegram row; a curator row has no such column.
Bindings ==
    {<<"student", st, telegram[student[st].telegram_id]>> :
        st \in {x \in DOMAIN student : student[x].telegram_id \in DOMAIN telegram}}

\* C15: a password of at least 4 characters, sent in the state pwd for a
\* principal that exists, stores the hash of the password for that principal,
\* binds the chat identifier to the principal through the one telegram row of
\* the chat (the row that was there, else a new one), sets verif for a student
\* and clears the conversation.
C15_PasswordCompletesRegistration ==
    [][\A chat \in BotChats, text \in Texts :
          LET role    == fsm[chat].data.role
              user_id == fsm[chat].data.user_id
          IN  ( /\ fsm[chat].state = "pwd"
                /\ Len(PasswordOf(text)) >= 4
                /\ user_id \in RowsOf(role)
                /\ pwd_handler(chat, text) ) =>
                  /\ password'[<<role, user_id>>] = hash_password(PasswordOf(text))
                  /\ <<role, user_id, chat>> \in Bindings'
                  /\ Cardinality({t \in DOMAIN telegram' : telegram'[t] = chat}) = 1
                  /\ TelegramRow(chat) # NULL => telegram' = telegram
                  /\ role = "student" => user_id \in verif'
                  /\ fsm'[chat] = Cleared]_vars

-----------------------------------------------------------------------------
(* The recipient resolver over every content of the tables it reads *)

\* ExamService.get_telegram_ids_by_exam_id(exam_id, db), called on any id
Resolve(exam_id) ==
    /\ IF exam_id \notin DOMAIN exam
       THEN \* scalar_one_or_none() is None: HTTPException(404)
            resolved' = [exam_id |-> exam_id, ids |-> <<>>, raised |-> 404]
       ELSE \E ids \in get_telegram_ids_by_exam_id(exam_id) :
               resolved' = [exam_id |-> exam_id, ids |-> ids, raised |-> NULL]
    /\ UNCHANGED <<dbVars, apiVars, markVars, botVars, clock, scan, sent, boot>>

InitResolver ==
    /\ curator = Curators
    /\ group = [g \in Groups |-> g]
    /\ student \in [Students -> [group_id : Groups, telegram_id : {NULL} \cup TgRows]]
    /\ telegram = [t \in TgRows |-> ChatOf(t)]
    /\ \E present \in SUBSET ExamIds :
          exam \in [present -> [type : {"exam"}, group_id : Groups, curator_id : {1},
                                holding_date : {Date(1)}, link : {NULL}]]
    /\ examSeq = 3
    /\ marks = <<>>
    /\ clock = 0
    /\ scan = ScanIdle
    /\ sent = <<>>
    /\ resolved = NotResolved
    /\ resp = NoResponse
    /\ bgQueue = <<>>
    /\ notifier = NotifierIdle
    /\ batch = BatchIdle
    /\ imp = ImportIdle
    /\ markTasks = <<>>
    /\ boot = NotStarted
    /\ NoConversation

NextResolver == \E exam_id \in 1..MaxExamId : Resolve(exam_id)

SpecResolver == InitResolver /\ [][NextResolver]_vars

\* C16: a call of the resolver writes nothing; for an id that is no exam it
\* raises not-found; for an exam whose group has no student with a handle it
\* returns the empty list and raises nothing.
C16_ResolverReadOnlyAndTotal ==
    [][resolved' # resolved =>
          /\ UNCHANGED <<curator, group, student, telegram, exam, examSeq, marks,
                         password, verif>>
          /\ resolved'.exam_id \notin DOMAIN exam => resolved'.raised = 404
          /\ resolved'.exam_id \in DOMAIN exam =>
                /\ resolved'.raised = NULL
                /\ (\A st \in DOMAIN student :
                       student[st].group_id = exam[resolved'.exam_id].group_id
                           => student[st].telegram_id = NULL)
                      => resolved'.ids = <<>>]_vars

\* the resolver returned the empty list for an exam of a group without
\* handle-holders while a student of another group holds a handle
C16_Witness ==
    /\ resolved.exam_id \in DOMAIN exam
    /\ resolved.raised = NULL
    /\ resolved.ids = <<>>
    /\ \E st \in DOMAIN student :
          /\ student[st].telegram_id # NULL
          /\ student[st].group_id # exam[resolved.exam_id].group_id

\* the resolver was asked for an id that is no exam and raised not-found
C16_WitnessAbsent ==
    /\ resolved.exam_id # NULL
    /\ resolved.exam_id \notin DOMAIN exam
    /\ resolved.raised = 404

-----------------------------------------------------------------------------
(* The reminder scan and dates that do not parse *)

\* the exams the running scan fetched: holding_date >= today, as strings
Fetched == {e \in DOMAIN exam : StrGE(exam[e].holding_date, Date(scan.today))}

-----------------------------------------------------------------------------
(* The mutating requests together with the notifiers they trigger *)

\* An administrator creates exams, sets links and updates marks in batches
\* while the background tasks and the notification tasks run.
NextRespond ==
    \/ \E e \in {1, MaxExamId} : UpdateExamLink("admin", 1, e, 1)
    \/ CreateExam("admin", 1, 1, 1)
    \/ \E i \in 1..MaxQueue : NotifierStart(i)
    \/ \E o \in Outcomes : NotifierSend(o)
    \/ BatchStart
    \/ \E raw \in {"5", "abc"} : BatchItem(1, 1, raw)
    \/ BatchCommit
    \/ send_notifications_with_delay

SpecRespond == InitApi /\ [][NextRespond]_vars

\* C18: the answer of an exam creation, a link update or a batch mark update
\* is given in the step that hands its notifications over, before any of them
\* is sent: the task is queued and the notifier has not moved.  No step of a
\* notifier or of a notification task, whatever the outcome of its send,
\* changes an answer that was given.
C18_ResponseIndependentOfNotifier ==
    [][/\ notifier' # notifier => (resp' = resp /\ batch' = batch)
       /\ (markTasks' # markTasks /\ Len(markTasks') <= Len(markTasks)) =>
             (resp' = resp /\ batch' = batch)
       /\ ( /\ resp' # resp
            /\ resp'.op \in {"create_exam", "update_exam_link"}
            /\ resp'.status \in {200, 201} ) =>
               /\ notifier' = notifier
               /\ Len(bgQueue') = Len(bgQueue) + 1
               /\ bgQueue'[Len(bgQueue')].exam_id = resp'.arg
       /\ (batch.pc = "run" /\ batch'.pc = "done") =>
               /\ batch'.status = 200
               /\ batch'.updated_count = batch.updated_count
               /\ markTasks' = Append(markTasks, batch.notifications)]_vars

\* the link of an exam was set and answered 200, and the notifier of that
\* update has ended on a send that failed: the answer is still the same
C18_Witness ==
    /\ resp.op = "update_exam_link"
    /\ resp.status = 200
    /\ notifier.kind = "link"
    /\ notifier.exam_id = resp.arg
    /\ notifier.pc = "done"
    /\ notifier.logged > 0
    /\ bgQueue = <<>>

-----------------------------------------------------------------------------
(* The status of a request addressed to a row that is not there *)

\* the request answered by r was admitted by the role gate and addresses an
\* exam, a student or a curator that the tables do not hold
AddressesAbsent(r) ==
    /\ require_roles(AllowedRoles(r.op), r.role)
    /\ \/ r.op \in {"update_exam_link", "get_exam_marks", "delete_exam"}
             /\ r.arg \notin DOMAIN exam
       \/ r.op = "update_student" /\ r.arg \notin DOMAIN student
       \/ r.op = "delete_curator" /\ r.arg \notin curator

\* C19: an admitted link update, mark listing or deletion of an exam, update
\* of a student or deletion of a curator that addresses an absent row is
\* answered 404.
C19_AbsentAnswers404 ==
    [][(resp' # resp /\ AddressesAbsent(resp')) => resp'.status = 404]_vars

-----------------------------------------------------------------------------
(* Logins: registration, import of students, update of a curator *)

\* str.upper()
upper(t) == [i \in DOMAIN t |->
                CASE t[i] = "a" -> "A" [] t[i] = "b" -> "B" [] t[i] = "c" -> "C"
                  [] OTHER -> t[i]]

\* StudentService._generate_login: the transliterated lower-case last name and
\* the upper-case initials (Latin letters transliterate to themselves)
generate_login(last_name, first_name, patronymic) ==
    lower(strip(last_name)) \o upper(SubSeq(strip(first_name), 1, 1))
                            \o upper(SubSeq(strip(patronymic), 1, 1))

\* the logins a request may carry
LoginTexts == {<<"k", "a">>, <<"k", "b">>, <<"k", "c">>, <<"a", "B", "C">>}

\* the rows of a table in the login column
LoginRows(table) == {p \in DOMAIN login : p[1] = table}

\* the login column with the row of a new principal
WithLogin(p, value) ==
    [q \in DOMAIN login \cup {p} |-> IF q = p THEN value ELSE login[q]]

\* the ids the sequences give to a new curator and a new student
NewCuratorId == Cardinality(curator) + 1
NewStudentId == Cardinality(DOMAIN student) + 1

\* AuthService.register_curator -> _base_registration(db, Curator, login):
\* ValueError when a curator has the login, else a new row
register_curator(new_login) ==
    /\ NewCuratorId \in Curators
    /\ IF \E p \in LoginRows("curator") : login[p] = new_login
       THEN UNCHANGED <<curator, login>>
       ELSE /\ curator' = curator \cup {NewCuratorId}
            /\ login' = WithLogin(<<"curator", NewCuratorId>>, new_login)
    /\ UNCHANGED <<group, student, telegram, exam, examSeq, marks, scanVars, apiVars,
                   markVars, fsm, answer, password, verif, calls>>

\* CuratorService.update_curator with the field login set: HTTPException(404)
\* for an absent curator, else the login is assigned and committed
update_curator(curator_id, value) ==
    /\ IF curator_id \notin curator
       THEN UNCHANGED login
       ELSE login' = [login EXCEPT ![<<"curator", curator_id>>] = value]
    /\ UNCHANGED <<dbVars, scanVars, apiVars, markVars, fsm, answer, password, verif, calls>>

\* the full_name of the table entry that lists a principal
FullNameText(p) ==
    FullNames[p].last_name \o <<" ">> \o FullNames[p].first_name
                           \o <<" ">> \o FullNames[p].patronymic

\* _check_student_exists: a student with these three names in this group
check_student_exists(last_name, first_name, patronymic, group_id) ==
    \E st \in DOMAIN student :
        /\ FullNames[<<"student", st>>].last_name = last_name
        /\ FullNames[<<"student", st>>].first_name = first_name
        /\ FullNames[<<"student", st>>].patronymic = patronymic
        /\ student[st].group_id = group_id

\* StudentService.import_students_from_table for a table of one entry, the one
\* that lists the student who gets the next id: an entry that is not 3 words,
\* names an unknown group or a student that exists is passed over; else the
\* student is added with the generated login.
import_students_from_table(full_name, group_id) ==
    LET parts == split(full_name)
    IN
    /\ NewStudentId \in Students
    /\ full_name = FullNameText(<<"student", NewStudentId>>)
    /\ IF \/ Len(parts) # FioWords
          \/ group_id \notin DOMAIN group
          \/ check_student_exists(parts[1], parts[2], parts[3], group_id)
       THEN UNCHANGED <<student, login>>
       ELSE /\ student' = [st \in DOMAIN student \cup {NewStudentId} |->
                              IF st = NewStudentId
                              THEN [group_id |-> group_id, telegram_id |-> NULL]
                              ELSE student[st]]
            /\ login' = WithLogin(<<"student", NewStudentId>>,
                                  generate_login(parts[1], parts[2], parts[3]))
    /\ UNCHANGED <<curator, group, telegram, exam, examSeq, marks, scanVars, apiVars,
                   markVars, fsm, answer, password, verif, calls>>

\* One curator registered itself and one student was imported.
InitLogins ==
    /\ curator = {1}
    /\ group = [g \in Groups |-> 1]
    /\ student \in [{1} -> [group_id : Groups, telegram_id : {NULL}]]
    /\ telegram = <<>>
    /\ exam = <<>>
    /\ examSeq = 1
    /\ marks = <<>>
    /\ clock = 0
    /\ scan = ScanIdle
    /\ sent = <<>>
    /\ resolved = NotResolved
    /\ boot = NotStarted
    /\ resp = NoResponse
    /\ bgQueue = <<>>
    /\ notifier = NotifierIdle
    /\ batch = BatchIdle
    /\ imp = ImportIdle
    /\ markTasks = <<>>
    /\ fsm = [c \in BotChats |-> Cleared]
    /\ answer = NoAnswer
    /\ password = [p \in Principals |->
                     IF p[1] = "curator" THEN hash_password(AdminPassword) ELSE NoText]
    /\ verif = {}
    /\ calls = <<>>
    /\ login = [p \in {<<"curator", 1>>, <<"student", 1>>} |->
                  IF p[1] = "curator" THEN RegisteredLogin(p)
                  ELSE generate_login(FullNames[p].last_name, FullNames[p].first_name,
                                      FullNames[p].patronymic)]

NextLogins ==
    \/ \E new_login \in LoginTexts : register_curator(new_login)
    \/ \E c \in Curators, value \in LoginTexts : update_curator(c, value)
    \/ \E p \in {"student"} \X Students, g \in Groups :
          import_students_from_table(FullNameText(p), g)

SpecLogins == InitLogins /\ [][NextLogins]_vars

\* C20: no two rows of the same table have the same login, unless it is null.
C20_LoginsUnique ==
    \A p, q \in DOMAIN login :
        (p # q /\ p[1] = q[1] /\ login[p] # NoText) => login[p] # login[q]


-----------------------------------------------------------------------------
(* Order and pacing of the deliveries of one notifier run *)

\* C21: within one run of an event notifier the calls of bot.send_message
\* follow the resolved list position by position: the k-th call made is the
\* one for the k-th entry of the list, what is left to serve is the rest of the
\* list behind the calls made (or nothing, once the run is over), and no chat
\* is called twice.
C21_DeliveredInInputOrder ==
    LET made == Len(notifier.log)
    IN  /\ made <= Len(notifier.ids)
        /\ \A k \in 1..made : notifier.log[k].chat = notifier.ids[k]
        /\ \A j, k \in 1..made :
              j # k => notifier.log[j].chat # notifier.log[k].chat
        /\ notifier.pc = "send" =>
              notifier.telegram_ids = SubSeq(notifier.ids, made + 1, Len(notifier.ids))
        /\ notifier.pc # "send" => notifier.telegram_ids = <<>>

\* a run over two recipients whose first delivery failed and whose second
\* was made after it
C21_Witness ==
    /\ notifier.pc = "done"
    /\ Len(notifier.ids) = 2
    /\ Len(notifier.log) = 2
    /\ notifier.log[1].outcome = "bad_request"
    /\ notifier.log[2].outcome = "ok"

\* C22: every call of bot.send_message of a run that is followed by another
\* call of the same run was followed by the delay of 10 first, whether the
\* call succeeded or failed.
C22_DelayBetweenSends ==
    \A k \in 1..(Len(notifier.log) - 1) : notifier.log[k].delay = SendDelay

-----------------------------------------------------------------------------
(* Commit before hand-over of the notifications *)

\* Variant that creates the notification task before it commits.
BatchCommitFails_TaskFirst ==
    /\ batch.pc = "run"
    /\ batch' = [batch EXCEPT !.pc = "failed", !.status = 500]
    /\ markTasks' = Append(markTasks, batch.notifications)
    /\ MarkUnchanged
    /\ UNCHANGED <<marks, imp>>

\* "await db.commit()" of batch_update_marks raises (the connection is lost,
\* a foreign key names a row that is gone): the exception leaves the service
\* through "except Exception: raise" before asyncio.create_task is reached,
\* the endpoint answers 500 and the session closes with nothing written.
BatchCommitFails ==
    /\ batch.pc = "run"
    /\ batch' = [batch EXCEPT !.pc = "failed", !.status = 500]
    /\ MarkUnchanged
    /\ UNCHANGED <<marks, imp, markTasks>>

\* a group_id that no row of the group table has
AbsentGroup == Cardinality(Groups) + 1

\* An administrator creates exams (for a group that exists and for one that
\* does not), sets links (of exams that exist and of one that does not) and
\* updates marks in batches whose commit succeeds or fails, while the tasks
\* handed over run.
NextEnqueue ==
    \/ \E e \in 1..MaxExamId : UpdateExamLink("admin", 1, e, 1)
    \/ \E g \in {1, AbsentGroup} : CreateExam("admin", 1, g, 1)
    \/ \E i \in 1..MaxQueue : NotifierStart(i)
    \/ \E o \in Outcomes : NotifierSend(o)
    \/ BatchStart
    \/ \E raw \in {"1", "abc"} : BatchItem(1, 1, raw)
    \/ BatchCommit
    \/ BatchCommitFails
    \/ send_notifications_with_delay

SpecEnqueue == InitApi /\ [][NextEnqueue]_vars

\* C23: a step hands a notifier over to the background tasks only together
\* with the committed change it reports (the exam it names is stored after the
\* step, with the link set or newly created, and the answer is 200 or 201); a
\* request answered with an error queues nothing and stores nothing; the mark
\* notification task is created only by the step that writes the batch to the
\* table, and a batch that ends in failure, at an item or at its commit,
\* creates no task and writes no mark.
C23_EnqueueOnlyAfterCommit ==
    [][/\ bgQueue' # bgQueue /\ Len(bgQueue') >= Len(bgQueue) =>
            LET t == bgQueue'[Len(bgQueue')]
            IN  /\ bgQueue' = Append(bgQueue, t)
                /\ resp'.status \in {200, 201}
                /\ resp'.arg = t.exam_id
                /\ t.exam_id \in DOMAIN exam'
                /\ t.kind = "link" =>
                      (resp'.op = "update_exam_link" /\ exam'[t.exam_id].link = 1)
                /\ t.kind = "creation" =>
                      (resp'.op = "create_exam" /\ t.exam_id \notin DOMAIN exam)
       /\ (resp' # resp /\ resp'.status >= 400) =>
            (bgQueue' = bgQueue /\ exam' = exam /\ examSeq' = examSeq)
       /\ Len(markTasks') > Len(markTasks) =>
            /\ batch.pc = "run" /\ batch'.pc = "done" /\ batch'.status = 200
            /\ marks' = Flush(batch.seen, batch.pending)
            /\ markTasks' = Append(markTasks, batch.notifications)
       /\ (batch.pc = "run" /\ batch'.pc = "failed") =>
            (markTasks' = markTasks /\ marks' = marks /\ batch'.status = 500)]_vars

\* a batch with a changed mark failed at its commit, a link update addressed
\* an absent exam and nothing is queued or written
C23_Witness ==
    /\ batch.pc = "failed"
    /\ batch.updated_count > 0
    /\ markTasks = <<>>
    /\ marks = <<[student_id |-> 1, exam_id |-> 1, mark |-> 5]>>
    /\ resp.op = "update_exam_link"
    /\ resp.status = 500
    /\ resp.arg \notin DOMAIN exam
    /\ bgQueue = <<>>
    /\ notifier = NotifierIdle

\* an exam creation for an absent group was answered 500 and queued nothing
C23_WitnessCreate ==
    /\ resp.op = "create_exam"
    /\ resp.status = 500
    /\ bgQueue = <<>>
    /\ DOMAIN exam = ExamIds

-----------------------------------------------------------------------------
(* Sessions and outbound waits *)

\* send_exam_reminders runs its whole body, the loop over the exams with the
\* sends and the sleeps in it, inside "async for db in get_db()": the session
\* is entered when the scan starts and left when the async-for ends.
ScanSessionOpen == scan.pc \notin {"idle", "done"}

\* C24: the reminder scan is never at a send (bot.send_message and the sleep
\* that follows it) while it holds an open database session.
C24_NoSessionAcrossSend == scan.pc = "send" => ~ScanSessionOpen

-----------------------------------------------------------------------------
(* The bot process: main(), on_startup() and the scheduler's daily job *)

\* the exams a scan made a send for, each with the days that were left
RemindedBy(sends, today) ==
    {<<sends[i].exam_id, exam[sends[i].exam_id].holding_date.ord - today>> :
        i \in DOMAIN sends}

\* on_startup(): "await send_exam_reminders()" begins the startup scan
on_startup_scan ==
    /\ boot.pc = "startup"
    /\ scan.pc = "idle"
    /\ ScanStart

\* Variant that registers the job without awaiting the startup scan.
on_startup_schedule_NoAwait ==
    /\ boot.pc = "startup"
    /\ boot' = [boot EXCEPT !.pc = "scheduled", !.job = TRUE]
    /\ UNCHANGED <<dbVars, apiVars, markVars, botVars, clock, scan, sent, resolved>>

\* on_startup() after the await has returned:
\* scheduler.add_job(send_exam_reminders, 'cron', hour=9, minute=0) and
\* scheduler.start()
on_startup_schedule ==
    /\ boot.pc = "startup"
    /\ scan.pc = "done"
    /\ boot' = [boot EXCEPT !.pc = "scheduled", !.job = TRUE]
    /\ UNCHANGED <<dbVars, apiVars, markVars, botVars, clock, scan, sent, resolved>>

\* main() after on_startup() has returned: bot.delete_webhook(...) and
\* dp.start_polling(bot)
start_polling ==
    /\ boot.pc = "scheduled"
    /\ boot' = [boot EXCEPT !.pc = "polling"]
    /\ UNCHANGED <<dbVars, apiVars, markVars, botVars, clock, scan, sent, resolved>>

\* It is 09:00: the trigger of a registered job fires.  The scheduler skips
\* the run when the previous one has not ended (max_instances is 1).  What the
\* scan before made a send for goes to the record of the scans that are over.
cron_trigger ==
    /\ boot.pc # "off"
    /\ boot.before9
    /\ LET fires == boot.job /\ scan.pc \in {"idle", "done"}
       IN  boot' = [boot EXCEPT !.before9 = FALSE,
                                !.due = fires,
                                !.reminded = IF fires
                                             THEN @ \cup RemindedBy(sent, scan.today)
                                             ELSE @]
    /\ UNCHANGED <<dbVars, apiVars, markVars, botVars, clock, scan, sent, resolved>>

\* the scheduler calls send_exam_reminders for the trigger that fired
cron_job ==
    /\ boot.due
    /\ ScanStart

\* Midnight passes while the process runs.
Midnight ==
    /\ boot.pc # "off"
    /\ ~boot.before9
    /\ clock < MaxDay
    /\ clock' = clock + 1
    /\ boot' = [boot EXCEPT !.before9 = TRUE]
    /\ UNCHANGED <<dbVars, apiVars, markVars, botVars, scan, sent, resolved>>

\* the dispatcher takes an update from the polling and runs its handler
handle_update(chat) ==
    /\ boot.pc = "polling"
    /\ start_command(chat)

\* main() has been called at some time of day 0; both exams are for the group
\* of the two students, who hold a handle each.
InitStartup ==
    /\ curator = Curators
    /\ group = [g \in Groups |-> g]
    /\ student = [s \in Students |->
                    [group_id |-> 1,
                     telegram_id |-> IF s \in TgRows THEN s ELSE NULL]]
    /\ telegram = [t \in TgRows |-> ChatOf(t)]
    /\ exam \in [ExamIds -> [type : {"exam"}, group_id : {1}, curator_id : {1},
                             holding_date : {Date(1), Date(3), TextHigh},
                             link : {NULL}]]
    /\ examSeq = 3
    /\ marks = <<>>
    /\ clock = 0
    /\ scan = ScanIdle
    /\ sent = <<>>
    /\ resolved = NotResolved
    /\ boot \in {[NotStarted EXCEPT !.pc = "startup", !.before9 = b] : b \in BOOLEAN}
    /\ resp = NoResponse
    /\ bgQueue = <<>>
    /\ notifier = NotifierIdle
    /\ batch = BatchIdle
    /\ imp = ImportIdle
    /\ markTasks = <<>>
    /\ NoConversation

\* the steps of the process itself, which the event loop keeps running
StartupProgress ==
    \/ on_startup_scan
    \/ ScanExam
    \/ \E o \in Outcomes : ScanSend(o)
    \/ ScanFinish
    \/ on_startup_schedule
    \/ start_polling
    \/ cron_job

NextStartup ==
    \/ on_startup_scan
    \/ ScanExam
    \/ \E o \in Outcomes : ScanSend(o)
    \/ ScanFinish
    \/ on_startup_schedule
    \/ start_polling
    \/ cron_job
    \/ cron_trigger
    \/ Midnight
    \/ \E chat \in BotChats : handle_update(chat)

SpecStartup == InitStartup /\ [][NextStartup]_vars

\* C25: a scan makes no send for an exam and a number of days left for which a
\* scan that is over has made one.
C25_OneScanPerOffset ==
    boot.due \/ \A p \in RemindedBy(sent, scan.today) : p \notin boot.reminded

\* The event loop runs main() on: every await of the process (a query, a send,
\* a sleep) returns or raises.
SpecStartupFair == SpecStartup /\ WF_vars(StartupProgress)

\* C30: while on_startup() awaits the startup scan no job is registered and
\* no update has been handled; the job is registered in a step that finds the
\* startup scan over, polling begins after that, and updates are handled only
\* while polling.  Whatever fails inside the startup scan, the process goes on
\* to hold the job and to poll.
C30_StartupScanFirst ==
    /\ [](boot.pc = "startup" => (~boot.job /\ ~boot.due /\ answer = NoAnswer))
    /\ [](boot.pc \in {"scheduled", "polling"} => (boot.job /\ scan.pc # "idle"))
    /\ [][/\ (boot'.job /\ ~boot.job) => (scan.pc = "done" /\ scan' = scan)
          /\ (boot'.pc = "polling" /\ boot.pc # "polling") => boot.job
          /\ (scan.pc = "idle" /\ scan'.pc # "idle") => boot.pc = "startup"
          /\ answer' # answer => boot.pc = "polling"]_vars
    /\ (boot.pc = "startup") ~> (boot.job /\ boot.pc = "polling")

\* the startup scan, the only scan so far, logged a failure (a send that
\* raised, a date that does not parse); the job is held and an update was
\* handled
C30_Witness ==
    /\ boot.pc = "polling"
    /\ boot.job
    /\ clock = 0 /\ boot.before9
    /\ scan.pc = "done"
    /\ scan.logged > 0
    /\ \E i \in DOMAIN sent : sent[i].outcome = "other"
    /\ answer # NoAnswer

-----------------------------------------------------------------------------
(* A rejected batch *)

\* C27: a step of batch_update_marks other than its commit, the rejection of
\* an item at any position included, writes no mark row and creates no
\* notification task: what the items before the rejected one changed is lost
\* with the session.
C27_RejectedBatchWritesNothing ==
    [][(batch' # batch /\ batch'.pc # "done") =>
          (marks' = marks /\ markTasks' = markTasks)]_vars

\* a batch was rejected at its third item after two items that changed marks,
\* and the table and the tasks are as they were before the batch
C27_Witness ==
    /\ batch.pc = "failed"
    /\ batch.status = 500
    /\ batch.n = 2
    /\ batch.updated_count = 2
    /\ marks = <<>>
    /\ markTasks = <<>>

-----------------------------------------------------------------------------
(* Registered students and the chats that register *)

\* the student completed the registration: a password hash is stored and the
\* row refers to a telegram row
Registered(st) ==
    /\ st \in DOMAIN student
    /\ student[st].telegram_id \in DOMAIN telegram
    /\ password[<<"student", st>>] # NoText

\* C29: an update handled for a chat other than the one a registered student
\* is bound to leaves that student's password hash and telegram row as they
\* are.
C29_RegisteredStudentIsKept ==
    [][\A st \in Students :
          (Registered(st) /\ answer'.chat # telegram[student[st].telegram_id]) =>
              /\ password'[<<"student", st>>] = password[<<"student", st>>]
              /\ student'[st].telegram_id = student[st].telegram_id]_vars

\* a text that names student 2
OtherName == <<"a", " ", "b", "b", " ", "c">>

\* The conversation with texts that name two different students.
NextRebind ==
    \/ \E chat \in BotChats : start_command(chat)
    \/ \E chat \in BotChats : menu_handler(chat)
    \/ \E chat \in BotChats : choose_role(chat, "role_student")
    \/ \E chat \in BotChats, text \in {OtherName, <<"a", " ", "b", " ", "c">>} :
          fio_handler(chat, text)
    \/ \E chat \in BotChats, text \in {OtherName} : pwd_handler(chat, text)

SpecRebind == InitBot /\ [][NextRebind]_vars

\* the students whose row refers to a telegram row of the chat
BoundStudents(chat) ==
    {st \in DOMAIN student :
        /\ student[st].telegram_id \in DOMAIN telegram
        /\ telegram[student[st].telegram_id] = chat}

\* C28: no chat identifier is bound to more than one student.
C28_OneStudentPerChat ==
    \A chat \in BotChats : Cardinality(BoundStudents(chat)) <= 1

-----------------------------------------------------------------------------
(* Registration completions that overlap: the dispatcher handles every      *)
(* update in a task of its own, and a service call yields at each await.    *)

\* the most calls of a service in flight at a time
MaxCalls == 2

\* pwd_handler up to the lookup of the service: the password is long enough,
\* the data of the conversation is read, db.get finds the principal and
\* select(Telegram).where(telegram_id == chat) ... first() has returned.  The
\* conversation stays in pwd until the handler's "finally".
pwd_handler_lookup(chat, text) ==
    LET pw      == strip(text)
        role    == fsm[chat].data.role
        user_id == fsm[chat].data.user_id
    IN  /\ fsm[chat].state = "pwd"
        /\ ~password_too_short(pw)
        /\ user_id \in RowsOf(role)
        /\ Len(calls) < MaxCalls
        /\ calls' = Append(calls, [chat |-> chat, role |-> role, user_id |-> user_id,
                                   pw |-> pw, telegram |-> TelegramRow(chat)])
        /\ UNCHANGED <<dbVars, scanVars, apiVars, markVars, fsm, answer, password,
                       verif, login>>

\* the rest of the call: "if not telegram" adds a row for the chat and
\* flushes; the password, the reference to the row and verif are set and
\* committed; the handler answers and clears the conversation.
pwd_handler_commit(i) ==
    /\ i \in DOMAIN calls
    /\ LET c   == calls[i]
           row == IF c.telegram # NULL THEN c.telegram ELSE NewTelegramRow
       IN  /\ telegram' = IF c.telegram # NULL THEN telegram
                          ELSE [t \in DOMAIN telegram \cup {NewTelegramRow} |->
                                   IF t \in DOMAIN telegram THEN telegram[t] ELSE c.chat]
           /\ password' = [password EXCEPT ![<<c.role, c.user_id>>] = hash_password(c.pw)]
           /\ IF c.role = "student"
              THEN /\ student' = [student EXCEPT ![c.user_id].telegram_id = row]
                   /\ verif' = verif \cup {c.user_id}
              ELSE UNCHANGED <<student, verif>>
           /\ Answered(c.chat, "pwd_handler", "success")
           /\ fsm' = [fsm EXCEPT ![c.chat] = Cleared]
    /\ calls' = RemoveAt(calls, i)
    /\ UNCHANGED <<curator, group, exam, examSeq, marks, scanVars, apiVars, markVars,
                   login>>

\* Chats that register, as a student or as a curator, with password messages
\* whose handlers may overlap.
NextOverlap ==
    \/ \E chat \in BotChats, data \in {"role_student", "role_curator"} : choose_role(chat, data)
    \/ \E chat \in BotChats : fio_handler(chat, <<"a", " ", "b", " ", "c">>)
    \/ \E chat \in BotChats : pwd_handler_lookup(chat, <<"a", " ", "b", " ", "c">>)
    \/ \E i \in 1..MaxCalls : pwd_handler_commit(i)

SpecOverlap == InitBot /\ [][NextOverlap]_vars

\* C26: the telegram table holds at most one row per chat identifier.
C26_OneRowPerChat ==
    \A chat \in BotChats : Cardinality({t \in DOMAIN telegram : telegram[t] = chat}) <= 1

=============================================================================
